---- MODULE Spec2Model ----
(***************************************************************************)
(* A model of src/app.py, the Streamlit audio transcription page: the      *)
(* start of the script (model loading), the "Clear All Transcriptions"     *)
(* button, the "Transcribe All Files" batch loop, transcribe_audio with    *)
(* its validation, temporary directory, model call and cleanup, and the    *)
(* combined export of the session's transcriptions.                        *)
(*                                                                         *)
(* What lies outside the repository is an input: what soundfile decodes    *)
(* from the uploaded bytes (an error, or a sample count and a sample rate  *)
(* of at least 1), what whisper's model.transcribe does with them (raises, *)
(* returns None, returns a dict whose text may be empty), whether the      *)
(* audio toolchain (ffmpeg) is installed, and whether writing the          *)
(* temporary file, unlinking it or removing its directory fails.           *)
(* tempfile.mkdtemp is taken to succeed: it is called outside every        *)
(* handler of the code.                                                    *)
(***************************************************************************)
EXTENDS Integers, Sequences, FiniteSets, TLC

VARIABLES
    pc,             \* where the script is
    toolchain,      \* environment: the system audio toolchain is installed
    model_available,\* environment: whisper.load_model succeeds
    transcriptions, \* st.session_state.transcriptions, a dict in insertion order
    inserted,       \* history: the (filename, text) stored since the last clear
    uploaded_files, \* the filenames of the uploaded files, in upload order
    i,              \* the batch loop's position in uploaded_files (1-based)
    skipped_files,  \* the batch's list of (filename, error)
    attempts,       \* history: per file of this batch "dup", "ok" or "failed"
    warning,        \* the lines written under "Some files were skipped"
    download,       \* all_transcriptions, the data of the combined download
    cur,            \* uploaded_file of the running iteration, with its content
    is_valid,       \* transcribe_audio's local is_valid
    message,        \* transcribe_audio's local message
    temp_dir,       \* the invocation's temp_dir: "unbound", "exists", "removed"
    temp_path,      \* the invocation's temp_path: "unbound", "absent", "exists"
    result,         \* transcribe_audio's local result
    pending,        \* how the try block of transcribe_audio completes
    cleanup_error,  \* the cleanup's except clause (lines 90-91) was taken
    outcome         \* how the invocation of transcribe_audio ended

vars == <<pc, toolchain, model_available, transcriptions, inserted,
          uploaded_files, i, skipped_files, attempts, warning, download, cur,
          is_valid, message, temp_dir, temp_path, result, pending,
          cleanup_error, outcome>>

callVars == <<cur, is_valid, message, temp_dir, temp_path, result, pending,
              cleanup_error, outcome>>

batchVars == <<uploaded_files, i, skipped_files, attempts, warning>>

envVars == <<toolchain, model_available>>

----------------------------------------------------------------------------
(* Bounds *)

MaxBatch == 3

MaxSamples == 2

MaxRate == 21

(* duration < 0.1 is len(data) / samplerate < 1 / DurationDen *)
DurationDen == 10

----------------------------------------------------------------------------
(* Inputs *)

Filenames == {"a.mp3", "b.wav", "c.ogg"}

OneFilename == {"a.mp3"}

Texts == {"hello", "world"}

DecodeErrors == {"Format not recognised.", "File contains data in an unknown format."}

ModelErrors == {"Failed to load audio"}

ToolchainError == "[Errno 2] No such file or directory: 'ffmpeg'"

WriteError == "[Errno 28] No space left on device"

Undecodable(m) == [decodes |-> FALSE, err |-> m, samples |-> 0, rate |-> 1]

Decoded(n, r) == [decodes |-> TRUE, err |-> "", samples |-> n, rate |-> r]

SpeechRaise(m) == [tag |-> "raise", text |-> m]

SpeechNone == [tag |-> "none", text |-> ""]

SpeechDict(t) == [tag |-> "dict", text |-> t]

AllAudio ==
    {Undecodable(m) : m \in DecodeErrors}
        \cup {Decoded(n, r) : n \in 0..MaxSamples, r \in 1..MaxRate}

AllSpeech ==
    {SpeechRaise(m) : m \in ModelErrors} \cup {SpeechNone}
        \cup {SpeechDict(t) : t \in Texts \cup {""}}

AllContents == [audio : AllAudio, speech : AllSpeech]

(* the batches' files: too short, valid with no text, valid with a text *)
BatchContents ==
    {[audio |-> Decoded(1, 11), speech |-> SpeechDict("hello")],
     [audio |-> Decoded(1, 10), speech |-> SpeechDict("")]}
        \cup {[audio |-> Decoded(1, 10), speech |-> SpeechDict(t)] : t \in Texts}

AllFaults == {"none", "unlink", "rmdir"}

AllWrites == {"ok", "open_failed", "write_failed"}

RECURSIVE SeqsUpTo(_, _)
SeqsUpTo(S, n) ==
    IF n = 0 THEN {<<>>}
    ELSE LET shorter == SeqsUpTo(S, n - 1)
         IN  shorter \cup {Append(s, x) : s \in {t \in shorter : Len(t) = n - 1}, x \in S}

----------------------------------------------------------------------------
(* Values *)

NoFile == [name |-> "", audio |-> Undecodable(""), speech |-> SpeechNone]

Unbound == [tag |-> "unbound", text |-> ""]

NoOutcome == [kind |-> "none", type |-> "", value |-> ""]

Return(t) == [kind |-> "return", type |-> "", value |-> t]

Raise(type, m) == [kind |-> "raise", type |-> type, value |-> m]

(* A Python dict: the (key, value) pairs in insertion order. *)
DictKeys(d) == {d[k].name : k \in 1..Len(d)}

DictHas(d, name) == name \in DictKeys(d)

DictGet(d, name) == d[CHOOSE k \in 1..Len(d) : d[k].name = name].text

(* d[name] = text: a present key keeps its place, a new key goes last. *)
DictSet(d, name, text) ==
    IF DictHas(d, name)
    THEN [k \in 1..Len(d) |->
            IF d[k].name = name THEN [name |-> name, text |-> text] ELSE d[k]]
    ELSE Append(d, [name |-> name, text |-> text])

----------------------------------------------------------------------------
(* The functions of app.py *)

(* variant: the duration is checked before the sample count *)
validate_audio_ShortFirst(audio) ==
    IF ~audio.decodes
    THEN [ok |-> FALSE, message |-> "Invalid audio file: " \o audio.err]
    ELSE IF audio.samples * DurationDen < audio.rate
    THEN [ok |-> FALSE, message |-> "Audio file is too short"]
    ELSE IF audio.samples = 0
    THEN [ok |-> FALSE, message |-> "Audio file appears to be empty"]
    ELSE [ok |-> TRUE, message |-> "Audio file is valid"]

(* variant: a duration of exactly 0.1 s is refused *)
validate_audio_AtMost(audio) ==
    IF ~audio.decodes
    THEN [ok |-> FALSE, message |-> "Invalid audio file: " \o audio.err]
    ELSE IF audio.samples = 0
    THEN [ok |-> FALSE, message |-> "Audio file appears to be empty"]
    ELSE IF audio.samples * DurationDen <= audio.rate
    THEN [ok |-> FALSE, message |-> "Audio file is too short"]
    ELSE [ok |-> TRUE, message |-> "Audio file is valid"]

(* validate_audio, on what sf.read makes of the bytes *)
validate_audio(audio) ==
    IF ~audio.decodes
    THEN [ok |-> FALSE, message |-> "Invalid audio file: " \o audio.err]
    ELSE IF audio.samples = 0
    THEN [ok |-> FALSE, message |-> "Audio file appears to be empty"]
    ELSE IF audio.samples * DurationDen < audio.rate
    THEN [ok |-> FALSE, message |-> "Audio file is too short"]
    ELSE [ok |-> TRUE, message |-> "Audio file is valid"]

(* variant: the except clause re-raises the message as it is *)
ExceptWrap_Bare(e) == Raise("Exception", e.value)

(* except Exception as e: raise Exception(f"Transcription failed: {str(e)}") *)
ExceptWrap(e) == Raise("Exception", "Transcription failed: " \o e.value)

(* what model.transcribe does with the file written to temp_path *)
ModelOutcome(speech) ==
    IF toolchain THEN speech ELSE SpeechRaise(ToolchainError)

(* if not result or not result.get("text") *)
Falsy(r) == r.tag = "none" \/ (r.tag = "dict" /\ r.text = "")

(* variant: every uploaded file is transcribed again *)
NeedsTranscription_Always(name) == TRUE

(* if uploaded_file.name not in st.session_state.transcriptions *)
NeedsTranscription(name) == ~DictHas(transcriptions, name)

(* f"=== {filename} ===\n{text}" *)
Entry(e) == "=== " \o e.name \o " ===\n" \o e.text

(* sep.join(parts) *)
RECURSIVE Join(_, _)
Join(sep, parts) ==
    IF Len(parts) = 0 THEN ""
    ELSE IF Len(parts) = 1 THEN parts[1]
    ELSE parts[1] \o sep \o Join(sep, Tail(parts))

(* variant: the entries are joined by a single newline *)
all_transcriptions_OneNewline(d) == Join("\n", [k \in 1..Len(d) |-> Entry(d[k])])

(* lines 138-141: "\n\n".join over the dict's items *)
all_transcriptions(d) == Join("\n\n", [k \in 1..Len(d) |-> Entry(d[k])])

(* the data of the download button, present when the dict is not empty *)
Display(d) == IF Len(d) = 0 THEN "" ELSE all_transcriptions(d)

(* f"- {filename}: {error}" *)
WarningLine(s) == "- " \o s.name \o ": " \o s.error

----------------------------------------------------------------------------
(* The script *)

Init ==
    /\ pc = "startup"
    /\ toolchain \in BOOLEAN
    /\ model_available \in BOOLEAN
    /\ transcriptions = <<>>
    /\ inserted = <<>>
    /\ uploaded_files = <<>>
    /\ i = 0
    /\ skipped_files = <<>>
    /\ attempts = <<>>
    /\ warning = <<>>
    /\ download = ""
    /\ cur = NoFile
    /\ is_valid = FALSE
    /\ message = ""
    /\ temp_dir = "unbound"
    /\ temp_path = "unbound"
    /\ result = Unbound
    /\ pending = NoOutcome
    /\ cleanup_error = FALSE
    /\ outcome = NoOutcome

(* lines 1-31 of the first run: the session's dict, load_model, st.stop() *)
Startup ==
    /\ pc = "startup"
    /\ pc' = IF model_available THEN "idle" ELSE "stopped"
    /\ UNCHANGED <<envVars, transcriptions, inserted, batchVars, download, callVars>>

(* lines 94-96: "Clear All Transcriptions", then the rerun of the script *)
Clear ==
    /\ pc \in {"idle", "done"}
    /\ transcriptions' = <<>>
    /\ inserted' = <<>>
    /\ uploaded_files' = <<>>
    /\ i' = 0
    /\ skipped_files' = <<>>
    /\ attempts' = <<>>
    /\ warning' = <<>>
    /\ download' = Display(transcriptions')
    /\ pc' = "idle"
    /\ UNCHANGED <<envVars, callVars>>

(* variant: skipped_files is not emptied by the click *)
ClickTranscribe_KeepSkipped(names, maxLen) ==
    /\ pc \in {"idle", "done"}
    /\ \E files \in SeqsUpTo(names, maxLen) :
        /\ Len(files) > 0
        /\ uploaded_files' = files
    /\ UNCHANGED skipped_files
    /\ attempts' = <<>>
    /\ warning' = <<>>
    /\ i' = 1
    /\ pc' = "loop"
    /\ UNCHANGED <<envVars, transcriptions, inserted, download, callVars>>

(* lines 99-109: files are uploaded and "Transcribe All Files" is clicked *)
ClickTranscribe(names, maxLen) ==
    /\ pc \in {"idle", "done"}
    /\ \E files \in SeqsUpTo(names, maxLen) :
        /\ Len(files) > 0
        /\ uploaded_files' = files
    /\ skipped_files' = <<>>
    /\ attempts' = <<>>
    /\ warning' = <<>>
    /\ i' = 1
    /\ pc' = "loop"
    /\ UNCHANGED <<envVars, transcriptions, inserted, download, callVars>>

(* lines 111-112: a file whose name has a record is passed over *)
LoopSkip ==
    /\ pc = "loop"
    /\ i <= Len(uploaded_files)
    /\ ~NeedsTranscription(uploaded_files[i])
    /\ attempts' = Append(attempts, "dup")
    /\ i' = i + 1
    /\ UNCHANGED <<pc, envVars, transcriptions, inserted, uploaded_files,
                   skipped_files, warning, download, callVars>>

(* lines 111-117: the next file, and the call of transcribe_audio on it *)
LoopCall(contents) ==
    /\ pc = "loop"
    /\ i <= Len(uploaded_files)
    /\ NeedsTranscription(uploaded_files[i])
    /\ \E c \in contents :
        cur' = [name |-> uploaded_files[i], audio |-> c.audio, speech |-> c.speech]
    /\ is_valid' = FALSE
    /\ message' = ""
    /\ temp_dir' = "unbound"
    /\ temp_path' = "unbound"
    /\ result' = Unbound
    /\ pending' = NoOutcome
    /\ cleanup_error' = FALSE
    /\ outcome' = NoOutcome
    /\ pc' = "validate"
    /\ UNCHANGED <<envVars, transcriptions, inserted, batchVars, download>>

(* variant: the temporary directory is made before the verdict is used *)
Validate_TempFirst ==
    /\ pc = "validate"
    /\ LET v == validate_audio(cur.audio)
       IN  /\ is_valid' = v.ok
           /\ message' = v.message
           /\ temp_dir' = "exists"
           /\ temp_path' = "absent"
           /\ IF v.ok
              THEN /\ pc' = "write"
                   /\ UNCHANGED outcome
              ELSE /\ pc' = "returned"
                   /\ outcome' = Raise("ValueError", v.message)
    /\ UNCHANGED <<envVars, transcriptions, inserted, batchVars, download, cur,
                   result, pending, cleanup_error>>

(* lines 54-57: validation, and the ValueError of an invalid file *)
Validate ==
    /\ pc = "validate"
    /\ LET v == validate_audio(cur.audio)
       IN  /\ is_valid' = v.ok
           /\ message' = v.message
           /\ IF v.ok
              THEN /\ pc' = "mkdtemp"
                   /\ UNCHANGED outcome
              ELSE /\ pc' = "returned"
                   /\ outcome' = Raise("ValueError", v.message)
    /\ UNCHANGED <<envVars, transcriptions, inserted, batchVars, download, cur,
                   temp_dir, temp_path, result, pending, cleanup_error>>

(* lines 59-61: a fresh temporary directory, and the path of the file in it *)
MakeTempDir ==
    /\ pc = "mkdtemp"
    /\ temp_dir' = "exists"
    /\ temp_path' = "absent"
    /\ pc' = "write"
    /\ UNCHANGED <<envVars, transcriptions, inserted, batchVars, download, cur,
                   is_valid, message, result, pending, cleanup_error, outcome>>

(* lines 63-66 (and 81-82 when open or write raises) *)
WriteFile(writes) ==
    /\ pc = "write"
    /\ \E w \in writes :
        /\ temp_path' = IF w = "open_failed" THEN "absent" ELSE "exists"
        /\ IF w = "ok"
           THEN /\ pc' = "model"
                /\ UNCHANGED pending
           ELSE /\ pc' = "finally"
                /\ pending' = ExceptWrap(Raise("OSError", WriteError))
    /\ UNCHANGED <<envVars, transcriptions, inserted, batchVars, download, cur,
                   is_valid, message, temp_dir, result, cleanup_error, outcome>>

(* lines 68-82: model.transcribe, the check of its result, the except clause *)
Transcribe ==
    /\ pc = "model"
    /\ LET r == ModelOutcome(cur.speech)
       IN  IF r.tag = "raise"
           THEN /\ pending' = ExceptWrap(Raise("RuntimeError", r.text))
                /\ UNCHANGED result
           ELSE /\ result' = r
                /\ pending' = IF Falsy(r)
                              THEN ExceptWrap(Raise("ValueError", "No transcription produced"))
                              ELSE Return(r.text)
    /\ pc' = "finally"
    /\ UNCHANGED <<envVars, transcriptions, inserted, batchVars, download, cur,
                   is_valid, message, temp_dir, temp_path, cleanup_error, outcome>>

(* variant: the directory is never removed *)
Cleanup_KeepDir(faults) ==
    /\ pc = "finally"
    /\ \E f \in faults :
        /\ f = "unlink" => temp_path = "exists"
        /\ temp_path' = IF f = "unlink" THEN temp_path ELSE "absent"
        /\ UNCHANGED temp_dir
        /\ cleanup_error' = (f # "none")
    /\ outcome' = pending
    /\ pc' = "returned"
    /\ UNCHANGED <<envVars, transcriptions, inserted, batchVars, download, cur,
                   is_valid, message, result, pending>>

(* lines 84-91: unlink the file, remove the directory, swallow a failure;
   then the return or the raise of the try block goes on *)
Cleanup(faults) ==
    /\ pc = "finally"
    /\ \E f \in faults :
        /\ f = "unlink" => temp_path = "exists"
        /\ temp_path' = IF f = "unlink" THEN temp_path ELSE "absent"
        /\ temp_dir' = IF f = "none" THEN "removed" ELSE temp_dir
        /\ cleanup_error' = (f # "none")
    /\ outcome' = pending
    /\ pc' = "returned"
    /\ UNCHANGED <<envVars, transcriptions, inserted, batchVars, download, cur,
                   is_valid, message, result, pending>>

(* the invocation is over: its locals, and the loop's uploaded_file, are dead *)
FrameGone ==
    /\ cur' = NoFile
    /\ is_valid' = FALSE
    /\ message' = ""
    /\ temp_dir' = "unbound"
    /\ temp_path' = "unbound"
    /\ result' = Unbound
    /\ pending' = NoOutcome
    /\ cleanup_error' = FALSE
    /\ outcome' = NoOutcome

(* lines 117-121: the text is stored under the file's name *)
StoreTranscription ==
    /\ pc = "returned"
    /\ outcome.kind = "return"
    /\ transcriptions' = DictSet(transcriptions, cur.name, outcome.value)
    /\ inserted' = Append(inserted, [name |-> cur.name, text |-> outcome.value])
    /\ attempts' = Append(attempts, "ok")
    /\ i' = i + 1
    /\ pc' = "loop"
    /\ FrameGone
    /\ UNCHANGED <<envVars, uploaded_files, skipped_files, warning, download>>

(* variant: a failure ends the loop *)
RecordFailure_Stop ==
    /\ pc = "returned"
    /\ outcome.kind = "raise"
    /\ skipped_files' = Append(skipped_files, [name |-> cur.name, error |-> outcome.value])
    /\ attempts' = Append(attempts, "failed")
    /\ i' = Len(uploaded_files) + 1
    /\ pc' = "loop"
    /\ FrameGone
    /\ UNCHANGED <<envVars, transcriptions, inserted, uploaded_files, warning,
                   download>>

(* lines 123-126: the failure is recorded and the loop goes on *)
RecordFailure ==
    /\ pc = "returned"
    /\ outcome.kind = "raise"
    /\ skipped_files' = Append(skipped_files, [name |-> cur.name, error |-> outcome.value])
    /\ attempts' = Append(attempts, "failed")
    /\ i' = i + 1
    /\ pc' = "loop"
    /\ FrameGone
    /\ UNCHANGED <<envVars, transcriptions, inserted, uploaded_files, warning,
                   download>>

(* lines 128-149: the loop is over; the skipped files are listed and the
   combined download is built *)
Report ==
    /\ pc = "loop"
    /\ i > Len(uploaded_files)
    /\ warning' = [k \in 1..Len(skipped_files) |-> WarningLine(skipped_files[k])]
    /\ download' = Display(transcriptions)
    /\ pc' = "done"
    /\ UNCHANGED <<envVars, transcriptions, inserted, uploaded_files, i,
                   skipped_files, attempts, callVars>>

Next ==
    \/ Startup
    \/ Clear
    \/ ClickTranscribe(Filenames, MaxBatch)
    \/ LoopSkip
    \/ LoopCall(BatchContents)
    \/ Validate
    \/ MakeTempDir
    \/ WriteFile(AllWrites)
    \/ Transcribe
    \/ Cleanup(AllFaults)
    \/ StoreTranscription
    \/ RecordFailure
    \/ Report

Spec == Init /\ [][Next]_vars

(* one file per upload, with every decoding and every model result *)
NextOne ==
    \/ Startup
    \/ Clear
    \/ ClickTranscribe(OneFilename, 1)
    \/ LoopSkip
    \/ LoopCall(AllContents)
    \/ Validate
    \/ MakeTempDir
    \/ WriteFile(AllWrites)
    \/ Transcribe
    \/ Cleanup(AllFaults)
    \/ StoreTranscription
    \/ RecordFailure
    \/ Report

SpecOne == Init /\ [][NextOne]_vars

----------------------------------------------------------------------------
(* Properties *)

InCall == pc \in {"validate", "mkdtemp", "write", "model", "finally", "returned"}

(* decodes, has a sample, and lasts at least a tenth of a second *)
AudioAcceptable(a) == a.decodes /\ a.samples >= 1 /\ 10 * a.samples >= a.rate

TempGone == temp_dir \in {"unbound", "removed"} /\ temp_path \in {"unbound", "absent"}

(* C1, as claimed: once transcribe_audio has returned or raised, neither the
   temporary file nor the temporary directory of the invocation exists, also
   when a deletion step of the cleanup failed. *)
C1_NoTempSurvives == pc = "returned" => TempGone

(* C1, amended: once transcribe_audio has returned or raised, neither the
   temporary file nor the temporary directory of the invocation exists unless
   a deletion step of the cleanup failed; such a failure is swallowed, the
   call ending as its try block ended. *)
C1_NoTempSurvivesUnlessDeletionFailed ==
    pc = "returned" =>
        /\ ~cleanup_error => TempGone
        /\ is_valid => outcome = pending /\ outcome.kind # "none"
        /\ ~is_valid => outcome = Raise("ValueError", message)

C1_Witness ==
    /\ pc = "returned"
    /\ outcome.kind = "raise"
    /\ temp_dir = "removed"
    /\ temp_path = "absent"

(* C2: a filename's stored text never changes while it has a record (only a
   clear removes records), and a file whose name has a record is passed over
   without a call of transcribe_audio. *)
C2_StoredTextNeverChanges ==
    [][/\ \A n \in Filenames :
            DictHas(transcriptions, n) =>
                IF DictHas(transcriptions', n)
                THEN DictGet(transcriptions', n) = DictGet(transcriptions, n)
                ELSE transcriptions' = <<>>
       /\ (pc = "loop" /\ i <= Len(uploaded_files)
              /\ DictHas(transcriptions, uploaded_files[i])) =>
            /\ pc' = "loop"
            /\ i' = i + 1
            /\ UNCHANGED <<transcriptions, callVars>>]_vars

C2_Witness ==
    /\ pc = "done"
    /\ uploaded_files = <<"a.mp3", "b.wav">>
    /\ attempts = <<"dup", "ok">>
    /\ transcriptions = <<[name |-> "a.mp3", text |-> "hello"],
                          [name |-> "b.wav", text |-> "world"]>>

(* C3: when a batch run ends every file of the upload list has had its turn,
   whatever failed before it; and a batch of three distinct files of which the
   first and the third transcribe and the second fails ends with records for
   the first and the third, none for the second, and one reported failure,
   naming the second. *)
C3_FailureDoesNotStopBatch ==
    pc = "done" =>
        /\ Len(attempts) = Len(uploaded_files)
        /\ (attempts = <<"ok", "failed", "ok">>
              /\ Cardinality({uploaded_files[k] : k \in 1..3}) = 3) =>
            /\ DictHas(transcriptions, uploaded_files[1])
            /\ DictHas(transcriptions, uploaded_files[3])
            /\ ~DictHas(transcriptions, uploaded_files[2])
            /\ Len(skipped_files) = 1
            /\ skipped_files[1].name = uploaded_files[2]

C3_Witness ==
    /\ pc = "done"
    /\ uploaded_files = <<"a.mp3", "b.wav", "c.ogg">>
    /\ attempts = <<"ok", "failed", "ok">>
    /\ DictKeys(transcriptions) = {"a.mp3", "c.ogg"}

(* C4: for an audio that decodes, has a sample and lasts at least 0.1 s,
   transcribe_audio returns a non-empty text or raises the transcription
   error of its except clause; it raises no validation error and returns no
   empty text. *)
C4_ValidAudioOutcomes ==
    (pc = "returned" /\ AudioAcceptable(cur.audio)) =>
        \/ outcome.kind = "return" /\ outcome.value # ""
        \/ /\ outcome.kind = "raise"
           /\ outcome.type = "Exception"
           /\ outcome.value \in
                {"Transcription failed: " \o m :
                    m \in ModelErrors \cup {ToolchainError, WriteError,
                                            "No transcription produced"}}

C4_Witness ==
    /\ pc = "returned"
    /\ cur.audio = Decoded(1, 10)
    /\ outcome = Return("hello")

(* C5, as claimed: while the audio toolchain is missing no run reaches a call
   of transcribe_audio. *)
C5_NoCallWithoutToolchain == ~toolchain => ~InCall

(* C6, as claimed: the reason listed for a failed file is the failure's own
   reason, and when the model yields no text the failure raised is exactly
   "No transcription produced". *)
C6_ReasonVerbatimBare ==
    [][/\ (pc = "returned" /\ outcome.kind = "raise") =>
            skipped_files' =
                Append(skipped_files, [name |-> cur.name, error |-> outcome.value])
       /\ (pc = "loop" /\ i > Len(uploaded_files)) =>
            warning' = [k \in 1..Len(skipped_files) |->
                          "- " \o skipped_files[k].name \o ": " \o skipped_files[k].error]
       /\ (pc = "returned" /\ Falsy(result)) =>
            /\ outcome.kind = "raise"
            /\ outcome.value = "No transcription produced"]_vars

(* C6, amended: the reason listed for a failed file is the failure's own
   reason, and when the model yields no text the failure raised is exactly
   "Transcription failed: No transcription produced". *)
C6_ReasonVerbatimWrapped ==
    [][/\ (pc = "returned" /\ outcome.kind = "raise") =>
            skipped_files' =
                Append(skipped_files, [name |-> cur.name, error |-> outcome.value])
       /\ (pc = "loop" /\ i > Len(uploaded_files)) =>
            warning' = [k \in 1..Len(skipped_files) |->
                          "- " \o skipped_files[k].name \o ": " \o skipped_files[k].error]
       /\ (pc = "returned" /\ Falsy(result)) =>
            /\ outcome.kind = "raise"
            /\ outcome.value = "Transcription failed: No transcription produced"]_vars

C6_Witness ==
    /\ pc = "done"
    /\ skipped_files = <<[name |-> "a.mp3",
                          error |-> "Transcription failed: No transcription produced"]>>
    /\ warning = <<"- a.mp3: Transcription failed: No transcription produced">>

(* the export as the claim words it: the entries in the order of insertion,
   each after the first preceded by one blank line *)
RECURSIVE ExpectedExport(_)
ExpectedExport(log) ==
    IF Len(log) = 0 THEN ""
    ELSE LET n == Len(log)
             entry == "=== " \o log[n].name \o " ===" \o "\n" \o log[n].text
         IN  IF n = 1 THEN entry
             ELSE ExpectedExport(SubSeq(log, 1, n - 1)) \o "\n" \o "\n" \o entry

(* C7: at the end of a run with a non-empty session store the combined export
   is the entries "=== {filename} ===\n{text}" in the order of first insertion
   since the last clear, joined by "\n\n", with nothing before or after. *)
C7_CombinedExport ==
    (pc = "done" /\ Len(transcriptions) > 0) =>
        /\ download = ExpectedExport(inserted)
        /\ inserted = <<[name |-> "a.mp3", text |-> "hello"],
                        [name |-> "b.wav", text |-> "world"]>> =>
            download = "=== a.mp3 ===\nhello\n\n=== b.wav ===\nworld"

C7_Witness ==
    /\ pc = "done"
    /\ download = "=== a.mp3 ===\nhello\n\n=== b.wav ===\nworld"

(* C8: the verdict of validate_audio follows the ordered rule: a decoding
   error, else zero samples (empty, whatever the rate), else a duration under
   0.1 s (too short), else valid. *)
C8_ValidationRule ==
    (InCall /\ pc # "validate") =>
        LET a == cur.audio
        IN  /\ ~a.decodes =>
                ~is_valid /\ message = "Invalid audio file: " \o a.err
            /\ (a.decodes /\ a.samples = 0) =>
                ~is_valid /\ message = "Audio file appears to be empty"
            /\ (a.decodes /\ a.samples > 0 /\ 10 * a.samples < a.rate) =>
                ~is_valid /\ message = "Audio file is too short"
            /\ (a.decodes /\ a.samples > 0 /\ 10 * a.samples >= a.rate) => is_valid

C8_Witness ==
    /\ pc = "returned"
    /\ cur.audio = Decoded(0, 11)
    /\ message = "Audio file appears to be empty"

(* C9: an invalid file makes transcribe_audio raise the validation reason at
   once: no temporary directory or file is made, and the model is not called;
   the steps after validation run for valid files only. *)
C9_InvalidFailsBeforeSideEffects ==
    [][/\ (pc = "validate" /\ ~AudioAcceptable(cur.audio)) =>
            /\ pc' = "returned"
            /\ outcome' = Raise("ValueError", message')
            /\ message' # ""
            /\ temp_dir' = "unbound"
            /\ temp_path' = "unbound"
            /\ result' = Unbound
       /\ pc \in {"mkdtemp", "write", "model", "finally"} =>
            AudioAcceptable(cur.audio)]_vars

C9_Witness ==
    /\ pc = "returned"
    /\ ~is_valid
    /\ outcome = Raise("ValueError", "Audio file is too short")
    /\ temp_dir = "unbound"
    /\ temp_path = "unbound"
    /\ result = Unbound

(* the names of the files whose attempt failed, in upload order *)
RECURSIVE FailedNames(_)
FailedNames(k) ==
    IF k = 0 THEN <<>>
    ELSE IF attempts[k] = "failed"
         THEN Append(FailedNames(k - 1), uploaded_files[k])
         ELSE FailedNames(k - 1)

(* C10: when a batch run ends, every uploaded file's name is a key of the
   session store or is in the failure list with a reason, and the failure list
   names exactly the files whose attempt failed in this run, in order. *)
C10_EveryFileAccounted ==
    pc = "done" =>
        /\ \A k \in 1..Len(uploaded_files) :
            \/ DictHas(transcriptions, uploaded_files[k])
            \/ \E j \in 1..Len(skipped_files) :
                /\ skipped_files[j].name = uploaded_files[k]
                /\ skipped_files[j].error # ""
        /\ Len(attempts) = Len(uploaded_files)
        /\ [j \in 1..Len(skipped_files) |-> skipped_files[j].name]
              = FailedNames(Len(attempts))

C10_Witness ==
    /\ pc = "done"
    /\ attempts = <<"dup", "failed", "ok">>
    /\ Len(skipped_files) = 1

====
